---- MODULE Spec2Model ----
(***************************************************************************)
(* Chat relay of Yogeshknaik/MCP-server: the POST /api/chat handler of the *)
(* Gemini variant (src/index-with-http.js) and of the Ollama variant       *)
(* (src/unnamed/part_000), their model adapters, the tool executor and the *)
(* part of the React client that posts a chat request.                     *)
(*                                                                         *)
(* A text is a sequence of string tokens; concatenation of strings is \o.  *)
(* A JSON object is a record, or a function from a set of field names.     *)
(***************************************************************************)
EXTENDS Naturals, Integers, Sequences, FiniteSets, TLC

VARIABLES
    backend,      \* which server variant runs: "gemini" or "ollama"
    reqs,         \* the chat requests of this run
    pc,           \* pc[r]: position of the handler of request r
    sender,       \* sender[r]: who posted request r ("none" before it is posted)
    body,         \* body[r]: req.body of request r
    queue,        \* queue[r]: functionCalls of the first model response
    idx,          \* idx[r]: position of the for-of loop in queue[r]
    log,          \* log[r]: what the handler did, in order
    messages,     \* client: the conversation (useState messages)
    inputValue,   \* client: the text box
    isLoading,    \* client: a request is in flight
    currentStreamingMessage,  \* client: the live bubble
    functionCalls,            \* client: the live function-call list
    stream,       \* client: the request whose response is being read ("none")
    received,     \* client: how many frames of that response were read
    assistantContent,   \* client: local of sendMessage, the answer so far
    tempFunctionCalls,  \* client: local of sendMessage, the calls so far
    users,        \* collaborator API: the users collection, in natural order
    usersBefore,  \* collaborator API: the collection before the last request
    apiReq,       \* collaborator API: the last request, [path, query]
    apiRes,       \* collaborator API: the reply to the last request
    modelText,    \* parseToolCalls: the text it is called with
    parsed        \* parseToolCalls: how the call ended

vars == <<backend, reqs, pc, sender, body, queue, idx, log,
          messages, inputValue, isLoading, currentStreamingMessage,
          functionCalls, stream, received, assistantContent,
          tempFunctionCalls, users, usersBefore, apiReq, apiRes,
          modelText, parsed>>

clientVars == <<messages, inputValue, isLoading, currentStreamingMessage,
                functionCalls>>

readerVars == <<stream, received, assistantContent, tempFunctionCalls>>

apiVars == <<users, usersBefore, apiReq, apiRes>>

parseVars == <<modelText, parsed>>

-----------------------------------------------------------------------------
(* Bounds *)

MaxCalls == 2        \* tool calls in one model response
MaxHist == 2         \* turns of a history posted by an arbitrary caller
MaxLongHist == 11    \* turns of a long alternating history posted directly
MaxExchanges == 5    \* exchanges the client conversation has been through
MaxUsers == 2        \* records in the users collection
MaxSegments == 3     \* pieces a text given to parseToolCalls is made of
MaxMarkers == 2      \* whole-match tokens of a text compared with its lexed form
ConcMaxCalls == 1    \* tool calls per response when two requests run at once

(* Program constants *)

HistoryWindow == 10  \* messages.slice(-10)

-----------------------------------------------------------------------------
(* Texts *)

IsBlank(t) == \A i \in 1..Len(t) : t[i] = " "

EmptyArgs == [f \in {} |-> ""]

RECURSIVE SeqsUpTo(_, _)
SeqsUpTo(S, n) ==
    IF n = 0 THEN {<<>>}
    ELSE LET shorter == SeqsUpTo(S, n - 1)
         IN  shorter \cup {Append(s, x) : s \in {t \in shorter : Len(t) = n - 1}, x \in S}

-----------------------------------------------------------------------------
(* Conversation turns as the caller posts them *)

UserTurn == [type |-> "user", content |-> <<"hi">>]
AssistantTurn == [type |-> "assistant", content |-> <<"ok">>]
EmptyUserTurn == [type |-> "user", content |-> <<>>]
BlankAssistantTurn == [type |-> "assistant", content |-> <<" ">>]

Turns == {UserTurn, AssistantTurn, EmptyUserTurn, BlankAssistantTurn}

UserMessages == {<<"weather in Kolkata?">>}

(* .filter((msg) => msg.content?.trim()) *)
FilterHistory(conversationHistory) ==
    SelectSeq(conversationHistory, LAMBDA msg : ~IsBlank(msg.content))

-----------------------------------------------------------------------------
(* callGeminiWithTools: the history handed to model.startChat *)

GeminiRole(msg) == IF msg.type = "user" THEN "user" ELSE "model"

MapGemini(h) == [i \in 1..Len(h) |-> [role |-> GeminiRole(h[i]), text |-> h[i].content]]

(* mutant: only an empty history is replaced *)
EnsureFirstUserOnlyEmpty(userMessage, history) ==
    IF Len(history) = 0
    THEN <<[role |-> "user", text |-> userMessage]>>
    ELSE history

(* "Ensure first message is user" *)
EnsureFirstUser(userMessage, history) ==
    IF Len(history) = 0 \/ history[1].role # "user"
    THEN <<[role |-> "user", text |-> userMessage]>>
    ELSE history

(* mutant: repeated roles are kept *)
CleanFromKeepAll(history, i) ==
    IF i > Len(history) THEN <<>> ELSE SubSeq(history, i, Len(history))

(* "Avoid repeated role entries": keep history[i] when i is the first index
   or its role differs from the role of history[i-1] *)
RECURSIVE CleanFrom(_, _)
CleanFrom(history, i) ==
    IF i > Len(history) THEN <<>>
    ELSE IF i = 1 \/ history[i].role # history[i - 1].role
         THEN <<history[i]>> \o CleanFrom(history, i + 1)
         ELSE CleanFrom(history, i + 1)

CleanHistory(history) == CleanFrom(history, 1)

GeminiHistory(userMessage, conversationHistory) ==
    CleanHistory(EnsureFirstUser(userMessage, MapGemini(FilterHistory(conversationHistory))))

(* what chat.sendMessage(userMessage) submits: the chat's history, then the
   message as a user turn; the tools and the system instruction go with it *)
GeminiSubmission(userMessage, conversationHistory) ==
    [api |-> "gemini.chat",
     system |-> TRUE,
     tools |-> TRUE,
     history |-> GeminiHistory(userMessage, conversationHistory),
     message |-> userMessage]

(* the follow-up: generateContent(prompt) on a model without tools or chat *)
GeminiFollowUpSubmission(prompt) ==
    [api |-> "gemini.generateContent",
     system |-> FALSE,
     tools |-> FALSE,
     history |-> <<>>,
     message |-> prompt]

-----------------------------------------------------------------------------
(* callOllama: the messages array posted to /api/chat of Ollama *)

OllamaRole(msg) == IF msg.type = "user" THEN "user" ELSE "assistant"

MapOllama(h) == [i \in 1..Len(h) |-> [role |-> OllamaRole(h[i]), text |-> h[i].content]]

OllamaHistory(conversationHistory) == MapOllama(FilterHistory(conversationHistory))

OllamaSubmission(userMessage, conversationHistory, systemPrompt) ==
    [api |-> "ollama.chat",
     system |-> systemPrompt,
     tools |-> FALSE,
     history |-> OllamaHistory(conversationHistory),
     message |-> userMessage]

(* the conversational turns a submission puts before the provider *)
TurnsSubmitted(sub) == Append(sub.history, [role |-> "user", text |-> sub.message])

-----------------------------------------------------------------------------
(* Tool calls a model may request *)

WeatherCall == [name |-> "getWeatherData", args |-> [city |-> "Kolkata"]]
WeatherNoCityCall == [name |-> "getWeatherData", args |-> EmptyArgs]
UsersCall == [name |-> "getLoctionWiseUserData", args |-> [city |-> "Paris"]]
DeleteCall == [name |-> "deleteUserlData", args |-> [email |-> "a@x.io", token |-> "1"]]
DeleteBadTokenCall == [name |-> "deleteUserlData", args |-> [email |-> "a@x.io", token |-> "0"]]
UnknownCall == [name |-> "sendEmail", args |-> EmptyArgs]

ToolCalls == {WeatherCall, WeatherNoCityCall, UsersCall, DeleteCall,
              DeleteBadTokenCall, UnknownCall}

RegisteredTools == {"getWeatherData", "getLoctionWiseUserData", "deleteUserlData"}

(* args.city and the like: the value of a field, "undefined" when absent,
   which is what the template literal of the URL makes of it *)
Field(args, k) == IF k \in DOMAIN args THEN args[k] ELSE "undefined"

ToLowerCase(str) == IF str = "Kolkata" THEN "kolkata"
                    ELSE IF str = "Paris" THEN "paris"
                    ELSE IF str = "Bob@X.com" THEN "bob@x.com" ELSE str

(* the `required` lists of the function declarations *)
RequiredFields(toolName) ==
    IF toolName \in {"getWeatherData", "getLoctionWiseUserData"} THEN {"city"}
    ELSE IF toolName = "deleteUserlData" THEN {"email", "token"}
    ELSE {}

(* mutant: the two city lookups go to each other's endpoint *)
OutboundSwapped(toolName, args) ==
    IF toolName = "getWeatherData"
    THEN [endpoint |-> "/getUserByCity",
          query |-> [city |-> Field(args, "city")]]
    ELSE IF toolName = "getLoctionWiseUserData"
    THEN [endpoint |-> "/getWeatherDetails",
          query |-> [city |-> Field(args, "city")]]
    ELSE [endpoint |-> "/deleteUser",
          query |-> [email |-> Field(args, "email"), token |-> Field(args, "token")]]

(* the one outbound request executeTool makes for a registered tool *)
Outbound(toolName, args) ==
    IF toolName = "getWeatherData"
    THEN [endpoint |-> "/getWeatherDetails",
          query |-> [city |-> Field(args, "city")]]
    ELSE IF toolName = "getLoctionWiseUserData"
    THEN [endpoint |-> "/getUserByCity",
          query |-> [city |-> Field(args, "city")]]
    ELSE [endpoint |-> "/deleteUser",
          query |-> [email |-> Field(args, "email"), token |-> Field(args, "token")]]

(* src/api.js: the JSON bodies an endpoint can answer a request with *)
CollaboratorResponses(request) ==
    IF request.endpoint = "/getWeatherDetails"
    THEN IF ToLowerCase(request.query.city) = "kolkata"
         THEN {[temp |-> "37c"]} ELSE {[temp |-> "50c"]}
    ELSE IF request.endpoint = "/getUserByCity"
    THEN {[array |-> <<>>], [array |-> <<"user1">>]}
    ELSE IF request.query.token = "1"
         THEN {[deletedCount |-> "0"], [deletedCount |-> "1"]}
         ELSE {[message |-> "error"]}

NetworkErrors == {<<"fetch failed">>}

(* mutant: the switch has no default branch, an unknown tool resolves to
   undefined *)
ToolOutcomesNoDefault(toolName, args) ==
    IF toolName \in RegisteredTools
    THEN {[ok |-> TRUE, result |-> res, response |-> res, error |-> <<>>] :
             res \in CollaboratorResponses(Outbound(toolName, args))}
         \cup {[ok |-> FALSE, result |-> [none |-> ""], response |-> [none |-> ""],
                 error |-> e] : e \in NetworkErrors}
    ELSE {[ok |-> TRUE, result |-> [none |-> ""], response |-> [none |-> ""],
           error |-> <<>>]}

(* executeTool: how the awaited promise settles.  response is the JSON body
   the collaborator answered with, result what executeTool returns, which is
   `await response.json()` as it is *)
ToolOutcomes(toolName, args) ==
    IF toolName \in RegisteredTools
    THEN {[ok |-> TRUE, result |-> res, response |-> res, error |-> <<>>] :
             res \in CollaboratorResponses(Outbound(toolName, args))}
         \cup {[ok |-> FALSE, result |-> [none |-> ""], response |-> [none |-> ""],
                 error |-> e] : e \in NetworkErrors}
    ELSE {[ok |-> FALSE, result |-> [none |-> ""], response |-> [none |-> ""],
           error |-> <<"Unknown tool: ", toolName>>]}

(* JSON.stringify of a tool result *)
Stringify(v) ==
    IF "temp" \in DOMAIN v THEN <<"{\"temp\":\"", v.temp, "\"}">>
    ELSE IF "message" \in DOMAIN v THEN <<"{\"message\":\"", v.message, "\"}">>
    ELSE IF "deletedCount" \in DOMAIN v
         THEN <<"{\"acknowledged\":true,\"deletedCount\":", v.deletedCount, "}">>
    ELSE IF "array" \in DOMAIN v THEN <<"[">> \o v.array \o <<"]">>
    ELSE <<"undefined">>

FollowUpPrompt(toolName, toolResult) ==
    <<"Based on the ", toolName, " result: ">> \o Stringify(toolResult)
        \o <<", provide a helpful response to the user.">>

-----------------------------------------------------------------------------
(* parseToolCalls (Ollama variant).  A model text is a sequence of tokens; a
   token is either plain text or one whole match of
   /TOOL_CALL:\s*(\w+)\s*\((.*?)\)/g, listed here with its two groups. *)

WeatherMarker == "TOOL_CALL: getWeatherData(\"city\": \"Kolkata\")"
DeleteMarker == "TOOL_CALL: deleteUserlData(\"email\": \"a@x.io\", \"token\": \"1\")"
UnknownMarker == "TOOL_CALL: sendEmail()"
MalformedMarker == "TOOL_CALL: getWeatherData(city: {Paris)"

Markers == {WeatherMarker, DeleteMarker, UnknownMarker, MalformedMarker}

(* group 1 of the match *)
MarkerName(tok) ==
    IF tok = WeatherMarker THEN "getWeatherData"
    ELSE IF tok = DeleteMarker THEN "deleteUserlData"
    ELSE IF tok = UnknownMarker THEN "sendEmail"
    ELSE "getWeatherData"

(* JSON.parse(`{${argsString}}`) of group 2: ok is FALSE when it throws *)
ParseArgs(tok) ==
    IF tok = WeatherMarker THEN [ok |-> TRUE, args |-> [city |-> "Kolkata"]]
    ELSE IF tok = DeleteMarker
         THEN [ok |-> TRUE, args |-> [email |-> "a@x.io", token |-> "1"]]
    ELSE IF tok = UnknownMarker THEN [ok |-> TRUE, args |-> EmptyArgs]
    ELSE [ok |-> FALSE, args |-> EmptyArgs]

RECURSIVE ParseFrom(_, _)
ParseFrom(content, i) ==
    IF i > Len(content) THEN <<>>
    ELSE IF content[i] \in Markers /\ ParseArgs(content[i]).ok
         THEN <<[name |-> MarkerName(content[i]), args |-> ParseArgs(content[i]).args]>>
                  \o ParseFrom(content, i + 1)
         ELSE ParseFrom(content, i + 1)

parseToolCalls(content) == ParseFrom(content, 1)

-----------------------------------------------------------------------------
(* What the providers can answer *)

ProviderErrors == {<<"fetch failed">>}

DirectTexts == {<<>>, <<"Hello!">>}
FollowUpTexts == {<<"It is 37c in Kolkata.">>}

(* mutant: the catch block rethrows the provider's error as it is *)
GeminiOutcomesUnwrapped ==
    {[ok |-> TRUE, functionCalls |-> fc, text |-> t, error |-> <<>>] :
        fc \in SeqsUpTo(ToolCalls, MaxCalls), t \in DirectTexts}
    \cup {[ok |-> FALSE, functionCalls |-> <<>>, text |-> <<>>, error |-> e] :
             e \in ProviderErrors}

(* callGeminiWithTools settles: functionCalls and text of the response, or
   the error thrown by its catch block *)
GeminiOutcomes ==
    {[ok |-> TRUE, functionCalls |-> fc, text |-> t, error |-> <<>>] :
        fc \in SeqsUpTo(ToolCalls, MaxCalls), t \in DirectTexts}
    \cup {[ok |-> FALSE, functionCalls |-> <<>>, text |-> <<>>,
           error |-> <<"Gemini API Error: ">> \o e] : e \in ProviderErrors}

(* genAI...generateContent(prompt) and (await followUp.response).text():
   nothing wraps the error *)
GeminiFollowUpOutcomes ==
    {[ok |-> TRUE, text |-> t, error |-> <<>>] : t \in FollowUpTexts}
    \cup {[ok |-> FALSE, text |-> <<>>, error |-> e] : e \in ProviderErrors}

OllamaTokens == Markers \cup {"Let me check."}

(* what callOllama throws: fetch rejected, or response.ok was false; its
   catch block wraps both *)
OllamaErrors ==
    {<<"Ollama API Error: ">> \o e : e \in ProviderErrors}
    \cup {<<"Ollama API Error: ", "Ollama API error: ", "500", " ", "Internal Server Error">>}

(* callOllama settles: text is data.message?.content || "" *)
OllamaOutcomes ==
    {[ok |-> TRUE, functionCalls |-> parseToolCalls(t), text |-> t, error |-> <<>>] :
        t \in SeqsUpTo(OllamaTokens, MaxCalls)}
    \cup {[ok |-> FALSE, functionCalls |-> <<>>, text |-> <<>>, error |-> e] :
             e \in OllamaErrors}

OllamaFollowUpOutcomes ==
    {[ok |-> TRUE, text |-> t, error |-> <<>>] : t \in FollowUpTexts \cup {<<WeatherMarker>>}}
    \cup {[ok |-> FALSE, text |-> <<>>, error |-> e] : e \in OllamaErrors}

FirstOutcomes(b) == IF b = "gemini" THEN GeminiOutcomes ELSE OllamaOutcomes
FollowUpOutcomes(b) == IF b = "gemini" THEN GeminiFollowUpOutcomes ELSE OllamaFollowUpOutcomes

(* callOllamaWithTools passes its tool-describing system prompt; the follow-up
   callOllama passes none *)
FirstSubmission(b, bd) ==
    IF b = "gemini" THEN GeminiSubmission(bd.message, bd.conversation_history)
    ELSE OllamaSubmission(bd.message, bd.conversation_history, TRUE)

FollowUpSubmission(b, bd, prompt) ==
    IF b = "gemini" THEN GeminiFollowUpSubmission(prompt)
    ELSE OllamaSubmission(prompt, bd.conversation_history, FALSE)

-----------------------------------------------------------------------------
(* Frames written to the response, one JSON object per line *)

(* mutant: the server remembers that it has served a request before *)
ThinkingFrameAgain ==
    [type |-> "thinking",
     content |-> IF \E q \in reqs : Len(log[q]) > 0
                 THEN <<"Processing...", " (again)">> ELSE <<"Processing...">>]

ThinkingFrame == [type |-> "thinking", content |-> <<"Processing...">>]
ExecutingFrame(fc) ==
    [type |-> "function_call", function |-> fc.name, args |-> fc.args,
     status |-> "executing"]
(* mutant: the completed frame does not carry the result *)
CompletedFrameNoResult(fc, toolResult) ==
    [type |-> "function_call", function |-> fc.name, args |-> fc.args,
     status |-> "completed"]
CompletedFrame(fc, toolResult) ==
    [type |-> "function_call", function |-> fc.name, args |-> fc.args,
     status |-> "completed", result |-> toolResult]
ToolErrorFrame(fc, message) ==
    [type |-> "function_call", function |-> fc.name, status |-> "error",
     error |-> message]
(* mutant: the content frame is written without the text *)
ContentFrameEmpty(text) == [type |-> "content", content |-> <<>>]
ContentFrame(text) == [type |-> "content", content |-> text]
ToolErrorText(fc, message) == <<"Error during ", fc.name, ": ">> \o message
(* mutant: the complete frame names the provider that answered *)
CompleteFrameByProvider == [type |-> "complete", provider |-> backend]
CompleteFrame == [type |-> "complete"]
ErrorFrame(message) == [type |-> "error", message |-> message]

(* Entries of log[r].  call is the position in the queue of the tool call the
   entry belongs to, 0 for the first round. *)
Write(i, frame) == [ev |-> "write", call |-> i, data |-> frame]
End == [ev |-> "end", call |-> 0, data |-> [none |-> ""]]
ModelCall(i, sub) == [ev |-> "modelCall", call |-> i, data |-> sub]
ModelRet(i, out) == [ev |-> "modelRet", call |-> i, data |-> out]
ToolCall(i, fc) == [ev |-> "toolCall", call |-> i, data |-> fc]
Fetch(i, request) == [ev |-> "fetch", call |-> i, data |-> request]
ToolRet(i, out) == [ev |-> "toolRet", call |-> i, data |-> out]

-----------------------------------------------------------------------------
(* The POST /api/chat handler, cut at its awaits *)

(* mutant: the adapter is called before anything is written *)
StartStepsCallFirst(b, bd) ==
    <<ModelCall(0, FirstSubmission(b, bd)), Write(0, ThinkingFrame)>>

(* res.writeHead, the thinking frame, then the adapter is called *)
StartSteps(b, bd) ==
    <<Write(0, ThinkingFrame), ModelCall(0, FirstSubmission(b, bd))>>

(* mutant: executeTool is called a second time *)
DispatchStepsTwice(i, fc) ==
    <<Write(i, ExecutingFrame(fc)), ToolCall(i, fc), ToolCall(i, fc)>>

(* top of the loop body for the i-th function call: the executing frame, then
   executeTool is called, which fetches unless the tool is unknown *)
DispatchSteps(i, fc) ==
    <<Write(i, ExecutingFrame(fc)), ToolCall(i, fc)>>
        \o (IF fc.name \in RegisteredTools
            THEN <<Fetch(i, Outbound(fc.name, fc.args))>> ELSE <<>>)

(* mutant: the stream is never ended *)
FinishStepsNoEnd == <<Write(0, CompleteFrame)>>

(* after the loop or the else branch: complete, res.end() *)
FinishSteps == <<Write(0, CompleteFrame), End>>

(* the outer catch *)
(* mutant: the outer catch writes the error frame and leaves the response
   open *)
AbortStepsNoEnd(message) == <<Write(0, ErrorFrame(message))>>

AbortSteps(message) == <<Write(0, ErrorFrame(message)), End>>

(* mutant: the inner catch writes the error frame only *)
RecoverStepsNoContent(i, fc, message) ==
    <<Write(i, ToolErrorFrame(fc, message))>>

(* the inner catch *)
RecoverSteps(i, fc, message) ==
    <<Write(i, ToolErrorFrame(fc, message)),
      Write(i, ContentFrame(ToolErrorText(fc, message)))>>

(* mutant: the loop dispatches the call it has just finished once more *)
NextStepsRepeat(q, i) ==
    IF i < Len(q) THEN DispatchSteps(i + 1, q[i]) ELSE FinishSteps

(* the loop goes on to the next function call, or is over *)
NextSteps(q, i) ==
    IF i < Len(q) THEN DispatchSteps(i + 1, q[i + 1]) ELSE FinishSteps

NextPc(q, i) == IF i < Len(q) THEN "awaitTool" ELSE "done"

(* the client reads no response *)
ReaderIdle ==
    /\ stream = "none"
    /\ received = 0
    /\ assistantContent = <<>>
    /\ tempFunctionCalls = <<>>

(* the collaborator API has served no request *)
ApiIdle ==
    /\ users = <<>>
    /\ usersBefore = <<>>
    /\ apiReq = [path |-> "none", query |-> EmptyArgs]
    /\ apiRes = [none |-> ""]

(* parseToolCalls has not been called *)
ParseIdle ==
    /\ modelText = <<>>
    /\ parsed = [returned |-> FALSE, threw |-> FALSE, toolCalls |-> <<>>]

NoBody == [message |-> <<>>, conversation_history |-> <<>>]

(* a request arrives with the JSON body bd *)
Post(r, bd, who) ==
    /\ pc[r] = "idle"
    /\ body' = [body EXCEPT ![r] = bd]
    /\ sender' = [sender EXCEPT ![r] = who]
    /\ pc' = [pc EXCEPT ![r] = "start"]
    /\ UNCHANGED <<backend, reqs, queue, idx, log, apiVars, parseVars>>

ChatStart(r) ==
    /\ pc[r] = "start"
    /\ log' = [log EXCEPT ![r] = @ \o StartSteps(backend, body[r])]
    /\ pc' = [pc EXCEPT ![r] = "awaitModel"]
    /\ UNCHANGED <<backend, reqs, sender, body, queue, idx, clientVars, readerVars, apiVars, parseVars>>

(* mutant: the function calls of a response are kept in a variable of the
   module, which every handler reads *)
ModelReturnSharedQueue(r) ==
    /\ pc[r] = "awaitModel"
    /\ \E out \in FirstOutcomes(backend) :
        IF ~out.ok
        THEN /\ log' = [log EXCEPT ![r] = @ \o <<ModelRet(0, out)>> \o AbortSteps(out.error)]
             /\ pc' = [pc EXCEPT ![r] = "done"]
             /\ UNCHANGED <<queue, idx>>
        ELSE IF Len(out.functionCalls) > 0
        THEN /\ queue' = [q \in reqs |-> out.functionCalls]
             /\ idx' = [idx EXCEPT ![r] = 1]
             /\ log' = [log EXCEPT ![r] = @ \o <<ModelRet(0, out)>>
                                            \o DispatchSteps(1, out.functionCalls[1])]
             /\ pc' = [pc EXCEPT ![r] = "awaitTool"]
        ELSE /\ log' = [log EXCEPT ![r] = @ \o <<ModelRet(0, out),
                                                Write(0, ContentFrame(out.text))>>
                                            \o FinishSteps]
             /\ pc' = [pc EXCEPT ![r] = "done"]
             /\ UNCHANGED <<queue, idx>>
    /\ UNCHANGED <<backend, reqs, sender, body, clientVars, readerVars, apiVars, parseVars>>

(* the first adapter call settles *)
ModelReturn(r) ==
    /\ pc[r] = "awaitModel"
    /\ \E out \in FirstOutcomes(backend) :
        IF ~out.ok
        THEN /\ log' = [log EXCEPT ![r] = @ \o <<ModelRet(0, out)>> \o AbortSteps(out.error)]
             /\ pc' = [pc EXCEPT ![r] = "done"]
             /\ UNCHANGED <<queue, idx>>
        ELSE IF Len(out.functionCalls) > 0
        THEN /\ queue' = [queue EXCEPT ![r] = out.functionCalls]
             /\ idx' = [idx EXCEPT ![r] = 1]
             /\ log' = [log EXCEPT ![r] = @ \o <<ModelRet(0, out)>>
                                            \o DispatchSteps(1, out.functionCalls[1])]
             /\ pc' = [pc EXCEPT ![r] = "awaitTool"]
        ELSE /\ log' = [log EXCEPT ![r] = @ \o <<ModelRet(0, out),
                                                Write(0, ContentFrame(out.text))>>
                                            \o FinishSteps]
             /\ pc' = [pc EXCEPT ![r] = "done"]
             /\ UNCHANGED <<queue, idx>>
    /\ UNCHANGED <<backend, reqs, sender, body, clientVars, readerVars, apiVars, parseVars>>

(* executeTool settles for the current function call *)
ToolReturn(r) ==
    /\ pc[r] = "awaitTool"
    /\ LET i == idx[r]
           fc == queue[r][i]
       IN \E out \in ToolOutcomes(fc.name, fc.args) :
           IF out.ok
           THEN /\ log' = [log EXCEPT ![r] = @ \o
                     <<ToolRet(i, out),
                       Write(i, CompletedFrame(fc, out.result)),
                       ModelCall(i, FollowUpSubmission(backend, body[r],
                                        FollowUpPrompt(fc.name, out.result)))>>]
                /\ pc' = [pc EXCEPT ![r] = "awaitFollowUp"]
                /\ UNCHANGED idx
           ELSE /\ log' = [log EXCEPT ![r] = @ \o <<ToolRet(i, out)>>
                                               \o RecoverSteps(i, fc, out.error)
                                               \o NextSteps(queue[r], i)]
                /\ pc' = [pc EXCEPT ![r] = NextPc(queue[r], i)]
                /\ idx' = [idx EXCEPT ![r] = i + 1]
    /\ UNCHANGED <<backend, reqs, sender, body, queue, clientVars, readerVars, apiVars, parseVars>>

(* the follow-up model call settles; it is awaited inside the same try block
   as executeTool *)
FollowUpReturn(r) ==
    /\ pc[r] = "awaitFollowUp"
    /\ LET i == idx[r]
           fc == queue[r][i]
       IN \E out \in FollowUpOutcomes(backend) :
           /\ log' = [log EXCEPT ![r] = @ \o <<ModelRet(i, out)>>
                        \o (IF out.ok
                            THEN <<Write(i, ContentFrame(out.text))>>
                            ELSE RecoverSteps(i, fc, out.error))
                        \o NextSteps(queue[r], i)]
           /\ pc' = [pc EXCEPT ![r] = NextPc(queue[r], i)]
           /\ idx' = [idx EXCEPT ![r] = i + 1]
    /\ UNCHANGED <<backend, reqs, sender, body, queue, clientVars, readerVars, apiVars, parseVars>>

-----------------------------------------------------------------------------
(* Specification of one chat request posted by any caller *)

Greeting == [type |-> "assistant", content |-> <<"Hello! I'm your AI assistant">>]

Requests == {"r1"}

SampleHistories == SeqsUpTo({UserTurn, AssistantTurn}, 1)

SampleBodies ==
    [message : UserMessages, conversation_history : SampleHistories]

DirectPost(r) ==
    /\ \E bd \in SampleBodies : Post(r, bd, "caller")
    /\ UNCHANGED <<clientVars, readerVars>>

Init ==
    /\ backend \in {"gemini", "ollama"}
    /\ reqs = Requests
    /\ pc = [r \in Requests |-> "idle"]
    /\ sender = [r \in Requests |-> "none"]
    /\ body = [r \in Requests |-> NoBody]
    /\ queue = [r \in Requests |-> <<>>]
    /\ idx = [r \in Requests |-> 0]
    /\ log = [r \in Requests |-> <<>>]
    /\ messages = <<Greeting>>
    /\ inputValue = <<>>
    /\ isLoading = FALSE
    /\ currentStreamingMessage = <<>>
    /\ functionCalls = <<>>
    /\ ReaderIdle
    /\ ApiIdle
    /\ ParseIdle

Next ==
    \/ \E r \in reqs : DirectPost(r)
    \/ \E r \in reqs : ChatStart(r)
    \/ \E r \in reqs : ModelReturn(r)
    \/ \E r \in reqs : ToolReturn(r)
    \/ \E r \in reqs : FollowUpReturn(r)

Spec == Init /\ [][Next]_vars

-----------------------------------------------------------------------------
(* Reading a log *)

IsWrite(e) == e.ev = "write"
Frames(r) == LET w == SelectSeq(log[r], IsWrite) IN [k \in 1..Len(w) |-> w[k].data]
FramesOf(r, i) ==
    LET w == SelectSeq(log[r], LAMBDA e : e.ev = "write" /\ e.call = i)
    IN  [k \in 1..Len(w) |-> w[k].data]
Positions(r, ev, i) == {p \in 1..Len(log[r]) : log[r][p].ev = ev /\ log[r][p].call = i}
Count(r, ev) == Cardinality({p \in 1..Len(log[r]) : log[r][p].ev = ev})
IsExecuting(e) ==
    e.ev = "write" /\ e.data.type = "function_call" /\ e.data.status = "executing"
IsTerminal(e) == e.ev = "write" /\ e.data.type \in {"complete", "error"}
Issued(e) == e.ev \in {"toolCall", "modelCall"}
Settled(e) == e.ev \in {"toolRet", "modelRet"}
(* at every point of the log the calls issued and not yet settled number 0
   or 1: issues and settlements alternate, an issue first; the first-round
   model call is not counted *)
OneInFlight(r) ==
    LET evs == SelectSeq(log[r], LAMBDA e : e.call > 0 /\ (Issued(e) \/ Settled(e)))
    IN  \A k \in 1..Len(evs) : Issued(evs[k]) <=> (k % 2 = 1)
Last(sq) == sq[Len(sq)]

-----------------------------------------------------------------------------
(* C1: the tool calls of the first model response are dispatched in the
   order the model returned them and one after the other: the k-th executing
   frame is the one of the k-th queued call, everything belonging to call i
   (frames, tool execution, follow-up model call and its return) precedes the
   executing frame of every later call, and at no point of the request is
   more than one tool execution or follow-up model call in flight. *)
C1_Sequential ==
    \A r \in reqs :
        LET ex == SelectSeq(log[r], IsExecuting)
        IN  /\ Len(ex) <= Len(queue[r])
            /\ \A k \in 1..Len(ex) :
                  ex[k].call = k /\ ex[k].data = ExecutingFrame(queue[r][k])
            /\ \A q \in 1..Len(log[r]) :
                  IsExecuting(log[r][q]) =>
                      \A p \in 1..Len(log[r]) :
                          (log[r][p].call >= 1 /\ log[r][p].call < log[r][q].call)
                              => p < q
            /\ OneInFlight(r)
            /\ (pc[r] = "done" => Len(ex) = Len(queue[r]))

C1_Witness ==
    \E r \in reqs :
        /\ pc[r] = "done"
        /\ Len(queue[r]) >= 2
        /\ queue[r][1] # queue[r][2]
        /\ Positions(r, "modelRet", 1) # {}
        /\ Positions(r, "toolRet", 2) # {}

(* C2: for a tool call whose execution and follow-up model call both
   succeeded, the frames written for it are exactly executing, completed
   with the tool's result, content with the follow-up text, in this order,
   and the follow-up model call is issued after the completed frame. *)
C2_SuccessFrames ==
    \A r \in reqs : \A i \in 1..Len(queue[r]) :
        \A pt \in Positions(r, "toolRet", i) : \A pm \in Positions(r, "modelRet", i) :
            (log[r][pt].data.ok /\ log[r][pm].data.ok) =>
                /\ FramesOf(r, i) =
                      <<[type |-> "function_call", function |-> queue[r][i].name,
                         args |-> queue[r][i].args, status |-> "executing"],
                        [type |-> "function_call", function |-> queue[r][i].name,
                         args |-> queue[r][i].args, status |-> "completed",
                         result |-> log[r][pt].data.result],
                        [type |-> "content", content |-> log[r][pm].data.text]>>
                /\ \A pc2 \in Positions(r, "modelCall", i) :
                      \E pw \in 1..(pc2 - 1) :
                          /\ log[r][pw].ev = "write" /\ log[r][pw].call = i
                          /\ log[r][pw].data.type = "function_call"
                          /\ log[r][pw].data.status = "completed"

C2_Witness ==
    \E r \in reqs :
        /\ pc[r] = "done"
        /\ \E pt \in Positions(r, "toolRet", 1) : log[r][pt].data.ok
                /\ log[r][pt].data.result = [temp |-> "37c"]
        /\ \E pm \in Positions(r, "modelRet", 1) : log[r][pm].data.ok

(* C3: when the execution of tool call i fails, its frames are executing,
   function_call(status=error, error = the error message) and a content
   frame naming the tool; the next queued call still gets its executing
   frame and is executed, and the finished stream ends with complete and
   holds no error frame. *)
C3_ToolFailureContinues ==
    \A r \in reqs : \A i \in 1..Len(queue[r]) :
        \A pt \in Positions(r, "toolRet", i) :
            ~log[r][pt].data.ok =>
                LET fr == FramesOf(r, i)
                IN  /\ Len(fr) = 3
                    /\ fr[2] = [type |-> "function_call", function |-> queue[r][i].name,
                                status |-> "error", error |-> log[r][pt].data.error]
                    /\ fr[3].type = "content"
                    /\ \E k \in 1..Len(fr[3].content) : fr[3].content[k] = queue[r][i].name
                    /\ Positions(r, "modelCall", i) = {}
                    /\ (i < Len(queue[r]) =>
                          /\ \E p \in pt..Len(log[r]) :
                                log[r][p] = Write(i + 1, ExecutingFrame(queue[r][i + 1]))
                          /\ \E p \in pt..Len(log[r]) :
                                log[r][p] = ToolCall(i + 1, queue[r][i + 1]))
                    /\ (pc[r] = "done" =>
                          /\ Last(Frames(r)) = [type |-> "complete"]
                          /\ \A k \in 1..Len(Frames(r)) : Frames(r)[k].type # "error"
                          /\ \A j \in 1..Len(queue[r]) : Positions(r, "toolRet", j) # {})

C3_Witness ==
    \E r \in reqs :
        /\ pc[r] = "done"
        /\ Len(queue[r]) = 2
        /\ \E pt \in Positions(r, "toolRet", 1) : ~log[r][pt].data.ok
        /\ \E pt \in Positions(r, "toolRet", 2) : log[r][pt].data.ok

(* C4: a response holds at most one terminal frame (complete or error),
   a finished one exactly one; the terminal frame is the last entry before
   res.end(), res.end() is called once, right after it, and nothing is
   written afterwards. *)
C4_OneTerminalFrame ==
    \A r \in reqs :
        LET L == log[r]
            term == {p \in 1..Len(L) : IsTerminal(L[p])}
            ends == {p \in 1..Len(L) : L[p].ev = "end"}
        IN  /\ Cardinality(term) <= 1
            /\ Cardinality(ends) <= 1
            /\ \A p \in term : p + 1 = Len(L) /\ L[p + 1].ev = "end"
            /\ \A p \in ends : p = Len(L) /\ p > 1 /\ IsTerminal(L[p - 1])
            /\ (pc[r] = "done" <=> ends # {})
            /\ (pc[r] = "done" => Cardinality(term) = 1)

C4_Witness ==
    /\ \E r \in reqs : pc[r] = "done" /\ Last(Frames(r)).type = "complete"
                          /\ Len(queue[r]) >= 1
    /\ backend = "ollama"

(* C5: when the first model call fails, the response is exactly thinking
   then error, the error message starts with the tag of the provider
   followed by the provider's own message, no tool is executed, and the
   stream is ended. *)
ProviderTag == IF backend = "gemini" THEN "Gemini API Error: " ELSE "Ollama API Error: "

C5_FirstCallFails ==
    \A r \in reqs : \A pm \in Positions(r, "modelRet", 0) :
        ~log[r][pm].data.ok =>
            /\ Len(Frames(r)) = 2
            /\ Frames(r)[1].type = "thinking"
            /\ Frames(r)[2].type = "error"
            /\ Len(Frames(r)[2].message) >= 2
            /\ Frames(r)[2].message[1] = ProviderTag
            /\ Count(r, "toolCall") = 0
            /\ Count(r, "fetch") = 0
            /\ Count(r, "modelCall") = 1
            /\ Last(log[r]).ev = "end"
            /\ pc[r] = "done"

C5_Witness ==
    \E r \in reqs :
        /\ backend = "gemini"
        /\ \E pm \in Positions(r, "modelRet", 0) : ~log[r][pm].data.ok
        /\ Frames(r) = <<ThinkingFrame,
                         [type |-> "error",
                          message |-> <<"Gemini API Error: ", "fetch failed">>]>>

(* C6: every failed model call, the follow-up ones included, makes the
   finished stream end with an error frame and hold no complete frame, and
   a function_call frame with status error is written only for a call whose
   own execution failed. *)
C6_ProviderFailureAborts ==
    \A r \in reqs :
        /\ (pc[r] = "done" /\ \E p \in 1..Len(log[r]) :
                                 log[r][p].ev = "modelRet" /\ ~log[r][p].data.ok)
              => /\ Last(Frames(r)).type = "error"
                 /\ \A k \in 1..Len(Frames(r)) : Frames(r)[k].type # "complete"
        /\ \A p \in 1..Len(log[r]) :
              (log[r][p].ev = "write" /\ log[r][p].data.type = "function_call"
                  /\ log[r][p].data.status = "error")
              => \E pt \in Positions(r, "toolRet", log[r][p].call) : ~log[r][pt].data.ok

(* C7: when the first model call succeeds without tool calls, the response
   is exactly thinking, content, complete, the content is the model's text,
   no tool is executed and no second model call is made. *)
C7_DirectAnswer ==
    \A r \in reqs : \A pm \in Positions(r, "modelRet", 0) :
        (log[r][pm].data.ok /\ Len(log[r][pm].data.functionCalls) = 0) =>
            /\ Frames(r) = <<[type |-> "thinking", content |-> <<"Processing...">>],
                             [type |-> "content", content |-> log[r][pm].data.text],
                             [type |-> "complete"]>>
            /\ Count(r, "toolCall") = 0
            /\ Count(r, "fetch") = 0
            /\ Count(r, "modelCall") = 1
            /\ pc[r] = "done"

C7_Witness ==
    \E r \in reqs :
        /\ backend = "ollama"
        /\ pc[r] = "done"
        /\ Frames(r) = <<ThinkingFrame, ContentFrame(<<MalformedMarker>>), CompleteFrame>>

(* C8: the first thing a handler does is write the thinking frame; the
   model adapter is called only after it. *)
C8_ThinkingFirst ==
    \A r \in reqs :
        /\ Len(log[r]) > 0 =>
              /\ log[r][1].ev = "write"
              /\ log[r][1].data = [type |-> "thinking", content |-> <<"Processing...">>]
        /\ \A p \in 1..Len(log[r]) :
              log[r][p].ev = "modelCall" =>
                  \E pw \in 1..(p - 1) :
                      log[r][pw].ev = "write" /\ log[r][pw].data.type = "thinking"
        /\ pc[r] \in {"awaitModel", "awaitTool", "awaitFollowUp", "done"} <=> Len(log[r]) > 0

C8_Witness ==
    \E r \in reqs : pc[r] = "awaitModel" /\ Len(log[r]) = 2
                       /\ log[r][2].ev = "modelCall"

-----------------------------------------------------------------------------
(* The client: ChatInterface.sendMessage up to its fetch *)

(* mutant: the whole conversation is posted *)
SliceAll(sq, n) == sq

(* messages.slice(-n) *)
SliceLast(sq, n) ==
    IF Len(sq) <= n THEN sq ELSE SubSeq(sq, Len(sq) - n + 1, Len(sq))

(* onChange of the text box, which is disabled while a request is loading *)
setInputValue(v) ==
    /\ ~isLoading
    /\ inputValue' = v
    /\ UNCHANGED <<backend, reqs, pc, sender, body, queue, idx, log,
                   messages, isLoading, currentStreamingMessage, functionCalls,
                   readerVars, apiVars, parseVars>>

(* sendMessage returns at once on blank input or while loading; otherwise it
   appends the user message, resets the live state and posts the text with
   the last ten messages of the conversation as it was before *)
sendMessage(r) ==
    /\ ~(IsBlank(inputValue) \/ isLoading)
    /\ messages' = Append(messages, [type |-> "user", content |-> inputValue])
    /\ inputValue' = <<>>
    /\ isLoading' = TRUE
    /\ currentStreamingMessage' = <<>>
    /\ functionCalls' = <<>>
    /\ stream' = r
    /\ received' = 0
    /\ assistantContent' = <<>>
    /\ tempFunctionCalls' = <<>>
    /\ Post(r, [message |-> inputValue,
                conversation_history |-> SliceLast(messages, HistoryWindow)], "client")

-----------------------------------------------------------------------------
(* Specification of the history a request carries to the provider: the
   client has been through some exchanges, or any caller posts a history *)

(* an exchange leaves the user message, followed by an assistant message
   unless the exchange ended without one *)
ExchangeResults == {<<UserTurn>>, <<UserTurn, AssistantTurn>>}

RECURSIVE ConversationsAfter(_)
ConversationsAfter(n) ==
    IF n = 0 THEN {<<Greeting>>}
    ELSE LET before == ConversationsAfter(n - 1)
         IN  before \cup {c \o x : c \in before, x \in ExchangeResults}

RECURSIVE Alternating(_, _)
Alternating(n, first) ==
    IF n = 0 THEN <<>>
    ELSE <<IF first = "user" THEN UserTurn ELSE AssistantTurn>>
            \o Alternating(n - 1, IF first = "user" THEN "assistant" ELSE "user")

PostedHistories ==
    SeqsUpTo(Turns, MaxHist)
    \cup {Alternating(n, f) : n \in 0..MaxLongHist, f \in {"user", "assistant"}}

InputTexts == UserMessages \cup {<<" ">>}

CallerPost(r) ==
    /\ \E m \in UserMessages, h \in PostedHistories :
          Post(r, [message |-> m, conversation_history |-> h], "caller")
    /\ UNCHANGED <<clientVars, readerVars>>

HistoryInit ==
    /\ backend \in {"gemini", "ollama"}
    /\ reqs = Requests
    /\ pc = [r \in Requests |-> "idle"]
    /\ sender = [r \in Requests |-> "none"]
    /\ body = [r \in Requests |-> NoBody]
    /\ queue = [r \in Requests |-> <<>>]
    /\ idx = [r \in Requests |-> 0]
    /\ log = [r \in Requests |-> <<>>]
    /\ messages \in ConversationsAfter(MaxExchanges)
    /\ inputValue = <<>>
    /\ isLoading = FALSE
    /\ currentStreamingMessage = <<>>
    /\ functionCalls = <<>>
    /\ ReaderIdle
    /\ ApiIdle
    /\ ParseIdle

HistoryNext ==
    \/ \E v \in InputTexts : setInputValue(v)
    \/ \E r \in reqs : sendMessage(r)
    \/ \E r \in reqs : CallerPost(r)
    \/ \E r \in reqs : ChatStart(r)

HistorySpec == HistoryInit /\ [][HistoryNext]_vars

(* the turns of a posted history that survive the blank filter *)
NonBlank(h) == SelectSeq(h, LAMBDA m : \E k \in 1..Len(m.content) : m.content[k] # " ")

Min(a, b) == IF a < b THEN a ELSE b

(* C9 as claimed: whatever history is posted, no model call submits more
   than ten turns of it. *)
C9_AdapterTruncates ==
    \A r \in reqs : \A p \in 1..Len(log[r]) :
        log[r][p].ev = "modelCall" => Len(log[r][p].data.history) <= 10

(* C9 amended: a request sent by the client carries the last ten messages
   the conversation held before the new user message (all of them when
   there were fewer), so a model call made for it submits at most ten
   history turns; the adapters do not shorten a history themselves. *)
C9_ClientWindow ==
    \A r \in reqs :
        sender[r] = "client" =>
            LET h == body[r].conversation_history
                n == Len(messages) - 1
            IN  /\ Len(h) = Min(10, n)
                /\ \A k \in 1..Len(h) : h[k] = messages[n - Len(h) + k]
                /\ messages[n + 1] = [type |-> "user", content |-> body[r].message]
                /\ \A p \in 1..Len(log[r]) :
                      log[r][p].ev = "modelCall" => Len(log[r][p].data.history) <= 10

C9_Witness ==
    \E r \in reqs :
        /\ sender[r] = "client"
        /\ Len(messages) > 11
        /\ \E p \in 1..Len(log[r]) :
              log[r][p].ev = "modelCall" /\ Len(log[r][p].data.history) = 10

(* C10 as claimed: when the posted history has no non-blank turn, or its
   first non-blank turn is not a user turn, the history submitted is the
   single user turn made of the current message; and the first turn
   submitted is always a user turn. *)
C10_FirstTurnUser ==
    \A r \in reqs : \A p \in Positions(r, "modelCall", 0) :
        LET nb == NonBlank(body[r].conversation_history)
            sub == log[r][p].data
        IN  /\ (Len(nb) = 0 \/ nb[1].type # "user") =>
                  sub.history = <<[role |-> "user", text |-> body[r].message]>>
            /\ TurnsSubmitted(sub)[1].role = "user"

(* C10 amended: the above holds of the Gemini adapter.  The Ollama adapter
   discards nothing: it submits the non-blank turns of the posted history
   in order, then the current message, so that the first turn it submits is
   a user turn exactly when the posted history has no non-blank turn or
   starts (blank turns aside) with a user turn. *)
C10_GeminiFirstTurnUser ==
    \A r \in reqs : \A p \in Positions(r, "modelCall", 0) :
        LET nb == NonBlank(body[r].conversation_history)
            sub == log[r][p].data
        IN  /\ backend = "gemini" =>
                  /\ (Len(nb) = 0 \/ nb[1].type # "user") =>
                        sub.history = <<[role |-> "user", text |-> body[r].message]>>
                  /\ TurnsSubmitted(sub)[1].role = "user"
            /\ backend = "ollama" =>
                  /\ Len(sub.history) = Len(nb)
                  /\ \A k \in 1..Len(nb) :
                        /\ sub.history[k].text = nb[k].content
                        /\ sub.history[k].role = "user" <=> nb[k].type = "user"
                  /\ sub.message = body[r].message
                  /\ TurnsSubmitted(sub)[1].role = "user"
                        <=> (Len(nb) = 0 \/ nb[1].type = "user")

C10_Witness ==
    \E r \in reqs : \E p \in Positions(r, "modelCall", 0) :
        /\ backend = "gemini"
        /\ Len(NonBlank(body[r].conversation_history)) >= 2
        /\ NonBlank(body[r].conversation_history)[1].type = "assistant"
        /\ log[r][p].data.history = <<[role |-> "user", text |-> body[r].message]>>

(* two neighbours of a sequence of turns carry the same role *)
HasRepeatedRole(t) == \E k \in 1..(Len(t) - 1) : t[k].role = t[k + 1].role

(* C11 as claimed: the turns put before the provider, the normalised
   history followed by the current user message, never hold two adjacent
   turns of the same role. *)
C11_NoRepeatedRole ==
    \A r \in reqs : \A p \in Positions(r, "modelCall", 0) :
        ~HasRepeatedRole(TurnsSubmitted(log[r][p].data))

(* C11 amended: the history the Gemini adapter hands to the chat starts with
   a user turn and never holds two adjacent turns of the same role; with the
   current message sent after it, two user turns are adjacent exactly when
   that history ends with a user turn.  The Ollama adapter collapses
   nothing: its history repeats a role wherever the non-blank turns of the
   posted history do. *)
C11_GeminiHistoryAlternates ==
    \A r \in reqs : \A p \in Positions(r, "modelCall", 0) :
        LET nb == NonBlank(body[r].conversation_history)
            sub == log[r][p].data
            h == sub.history
        IN  /\ backend = "gemini" =>
                  /\ Len(h) >= 1
                  /\ \A k \in 1..Len(h) :
                        h[k].role = (IF k % 2 = 1 THEN "user" ELSE "model")
                  /\ HasRepeatedRole(TurnsSubmitted(sub)) <=> Len(h) % 2 = 1
            /\ backend = "ollama" =>
                  /\ Len(h) = Len(nb)
                  /\ \A k \in 1..(Len(h) - 1) :
                        h[k].role = h[k + 1].role <=> nb[k].type = nb[k + 1].type

C11_Witness ==
    \E r \in reqs : \E p \in Positions(r, "modelCall", 0) :
        LET nb == NonBlank(body[r].conversation_history)
        IN  /\ backend = "gemini"
            /\ Len(nb) >= 2
            /\ nb[1].type = "user"
            /\ \E k \in 1..(Len(nb) - 1) : nb[k].type = nb[k + 1].type
            /\ Len(log[r][p].data.history) < Len(nb)

-----------------------------------------------------------------------------
(* C12: a tool call whose name is none of the three registered tools makes
   no outbound request; executeTool fails with "Unknown tool: <name>", the
   handler writes function_call(status=error) with that message and a
   content frame for the call, and the loop goes on: the next queued call
   is dispatched and the finished stream ends with complete. *)
C12_UnknownTool ==
    \A r \in reqs : \A i \in 1..Len(queue[r]) :
        (queue[r][i].name \notin {"getWeatherData", "getLoctionWiseUserData",
                                  "deleteUserlData"}
            /\ Positions(r, "toolCall", i) # {}) =>
            /\ Positions(r, "fetch", i) = {}
            /\ \A pt \in Positions(r, "toolRet", i) :
                  /\ ~log[r][pt].data.ok
                  /\ log[r][pt].data.error = <<"Unknown tool: ", queue[r][i].name>>
                  /\ FramesOf(r, i) =
                        <<[type |-> "function_call", function |-> queue[r][i].name,
                           args |-> queue[r][i].args, status |-> "executing"],
                          [type |-> "function_call", function |-> queue[r][i].name,
                           status |-> "error",
                           error |-> <<"Unknown tool: ", queue[r][i].name>>],
                          [type |-> "content",
                           content |-> <<"Error during ", queue[r][i].name, ": ",
                                         "Unknown tool: ", queue[r][i].name>>]>>
                  /\ (i < Len(queue[r]) => Positions(r, "toolCall", i + 1) # {})
            /\ (pc[r] = "done" => Last(Frames(r)) = [type |-> "complete"])

C12_Witness ==
    \E r \in reqs :
        /\ pc[r] = "done"
        /\ Len(queue[r]) = 2
        /\ queue[r][1].name = "sendEmail"
        /\ \E pt \in Positions(r, "toolRet", 2) : log[r][pt].data.ok

(* C13: a tool call whose arguments lack a field the tool's declaration
   lists as required makes no outbound request, and executeTool fails for
   it with InvalidArguments. *)
C13_RequiredArguments ==
    \A r \in reqs : \A i \in 1..Len(queue[r]) :
        (RequiredFields(queue[r][i].name) \ DOMAIN queue[r][i].args # {}
            /\ Positions(r, "toolCall", i) # {}) =>
            /\ Positions(r, "fetch", i) = {}
            /\ \A pt \in Positions(r, "toolRet", i) :
                  /\ ~log[r][pt].data.ok
                  /\ Len(log[r][pt].data.error) >= 1
                  /\ log[r][pt].data.error[1] = "InvalidArguments"

(* the collaborator endpoint that belongs to a tool *)
EndpointOf(toolName) ==
    IF toolName = "getWeatherData" THEN "/getWeatherDetails"
    ELSE IF toolName = "getLoctionWiseUserData" THEN "/getUserByCity"
    ELSE "/deleteUser"

(* C14: an executeTool call that succeeded made exactly one outbound
   request, to the collaborator of its tool name with the arguments of the
   call, and returned the collaborator's response as it is: the result of
   the completed frame is that response. *)
C14_OneCollaboratorCall ==
    \A r \in reqs : \A i \in 1..Len(queue[r]) :
        \A pt \in Positions(r, "toolRet", i) :
            log[r][pt].data.ok =>
                /\ Cardinality(Positions(r, "fetch", i)) = 1
                /\ \A pf \in Positions(r, "fetch", i) :
                      /\ pf < pt
                      /\ log[r][pf].data.endpoint = EndpointOf(queue[r][i].name)
                      /\ \A k \in DOMAIN log[r][pf].data.query :
                            k \in DOMAIN queue[r][i].args =>
                                log[r][pf].data.query[k] = queue[r][i].args[k]
                      /\ log[r][pt].data.response
                            \in CollaboratorResponses(log[r][pf].data)
                /\ log[r][pt].data.result = log[r][pt].data.response
                /\ \E pw \in (pt + 1)..Len(log[r]) :
                      /\ log[r][pw].ev = "write" /\ log[r][pw].call = i
                      /\ log[r][pw].data.type = "function_call"
                      /\ log[r][pw].data.status = "completed"
                      /\ log[r][pw].data.result = log[r][pt].data.response

C14_Witness ==
    \E r \in reqs :
        /\ pc[r] = "done"
        /\ Len(queue[r]) = 2
        /\ queue[r][1].name = "getLoctionWiseUserData"
        /\ queue[r][2].name = "deleteUserlData"
        /\ \E pt \in Positions(r, "toolRet", 1) :
              log[r][pt].data.ok /\ log[r][pt].data.response = [array |-> <<"user1">>]
        /\ \E pt \in Positions(r, "toolRet", 2) :
              log[r][pt].data.ok /\ log[r][pt].data.response = [deletedCount |-> "1"]

(* C15: nothing is done twice.  The first-round model call is made once;
   the i-th tool call executed is the i-th call of the first model
   response and is executed at most once; a follow-up model call is made at
   most once per tool call and only after that tool succeeded; tool calls
   that a follow-up answer asks for are not dispatched. *)
C15_NoRetry ==
    \A r \in reqs :
        /\ Cardinality(Positions(r, "modelCall", 0)) <= 1
        /\ Cardinality(Positions(r, "modelRet", 0)) <= 1
        /\ Len(log[r]) > 0 => Cardinality(Positions(r, "modelCall", 0)) = 1
        /\ \A p \in 1..Len(log[r]) :
              log[r][p].ev = "toolCall" =>
                  \E pm \in Positions(r, "modelRet", 0) :
                      /\ pm < p
                      /\ log[r][pm].data.ok
                      /\ log[r][p].call \in 1..Len(log[r][pm].data.functionCalls)
                      /\ log[r][p].data = log[r][pm].data.functionCalls[log[r][p].call]
        /\ \A i \in 1..Len(queue[r]) :
              /\ Cardinality(Positions(r, "toolCall", i)) <= 1
              /\ Cardinality(Positions(r, "toolRet", i)) <= 1
              /\ Cardinality(Positions(r, "fetch", i)) <= 1
              /\ Cardinality(Positions(r, "modelCall", i)) <= 1
              /\ Cardinality(Positions(r, "modelRet", i)) <= 1
              /\ \A pm \in Positions(r, "modelCall", i) :
                    \E pt \in Positions(r, "toolRet", i) :
                        pt < pm /\ log[r][pt].data.ok
        /\ \A p \in 1..Len(log[r]) : log[r][p].call <= Len(queue[r])

C15_Witness ==
    \E r \in reqs :
        /\ backend = "ollama"
        /\ pc[r] = "done"
        /\ Len(queue[r]) = 1
        /\ \E pm \in Positions(r, "modelRet", 1) :
              log[r][pm].data.ok /\ parseToolCalls(log[r][pm].data.text) # <<>>
        /\ Count(r, "toolCall") = 1

-----------------------------------------------------------------------------
(* Specification of two chat requests handled at the same time: the steps
   of the two handlers interleave at their awaits in every order.  The model
   asks for at most ConcMaxCalls tools, taken from ConcToolCalls, in a text
   of at most ConcMaxCalls tokens. *)

ConcRequests == {"r1", "r2"}

ConcToolCalls == {WeatherCall, UnknownCall}

ConcEnv ==
    \A r \in reqs :
        /\ Len(queue[r]) <= ConcMaxCalls
        /\ \A i \in 1..Len(queue[r]) : queue[r][i] \in ConcToolCalls
        /\ \A p \in Positions(r, "modelRet", 0) :
              Len(log[r][p].data.text) <= ConcMaxCalls

ConcInit ==
    /\ backend \in {"gemini", "ollama"}
    /\ reqs = ConcRequests
    /\ pc = [r \in ConcRequests |-> "idle"]
    /\ sender = [r \in ConcRequests |-> "none"]
    /\ body = [r \in ConcRequests |-> NoBody]
    /\ queue = [r \in ConcRequests |-> <<>>]
    /\ idx = [r \in ConcRequests |-> 0]
    /\ log = [r \in ConcRequests |-> <<>>]
    /\ messages = <<Greeting>>
    /\ inputValue = <<>>
    /\ isLoading = FALSE
    /\ currentStreamingMessage = <<>>
    /\ functionCalls = <<>>
    /\ ReaderIdle
    /\ ApiIdle
    /\ ParseIdle

ConcNext ==
    \/ \E r \in reqs : DirectPost(r)
    \/ \E r \in reqs : ChatStart(r)
    \/ (\E r \in reqs : ModelReturn(r)) /\ ConcEnv'
    \/ \E r \in reqs : ToolReturn(r)
    \/ \E r \in reqs : FollowUpReturn(r)

ConcSpec == ConcInit /\ [][ConcNext]_vars

(* what the providers and the collaborators answered to request r, in order *)
Responses(r) ==
    LET a == SelectSeq(log[r], Settled) IN [k \in 1..Len(a) |-> a[k].data]

(* the frames a handler writes when it runs alone and is answered with the
   answers found in log[r]: the frames of the calls from the i-th on *)
RECURSIVE AloneFrom(_, _, _)
AloneFrom(r, fcs, i) ==
    IF i > Len(fcs) THEN <<[type |-> "complete"]>>
    ELSE <<ExecutingFrame(fcs[i])>> \o
         (IF Positions(r, "toolRet", i) = {} THEN <<>>
          ELSE LET t == log[r][CHOOSE p \in Positions(r, "toolRet", i) : TRUE].data
               IN  IF ~t.ok
                   THEN <<ToolErrorFrame(fcs[i], t.error),
                          ContentFrame(ToolErrorText(fcs[i], t.error))>>
                        \o AloneFrom(r, fcs, i + 1)
                   ELSE <<CompletedFrame(fcs[i], t.result)>> \o
                        (IF Positions(r, "modelRet", i) = {} THEN <<>>
                         ELSE LET m == log[r][CHOOSE p \in Positions(r, "modelRet", i) : TRUE].data
                              IN  (IF m.ok THEN <<ContentFrame(m.text)>>
                                   ELSE <<ToolErrorFrame(fcs[i], m.error),
                                          ContentFrame(ToolErrorText(fcs[i], m.error))>>)
                                  \o AloneFrom(r, fcs, i + 1)))

AloneFrames(r) ==
    IF Len(log[r]) = 0 THEN <<>>
    ELSE <<[type |-> "thinking", content |-> <<"Processing...">>]>> \o
         (IF Positions(r, "modelRet", 0) = {} THEN <<>>
          ELSE LET out == log[r][CHOOSE p \in Positions(r, "modelRet", 0) : TRUE].data
               IN  IF ~out.ok THEN <<[type |-> "error", message |-> out.error]>>
                   ELSE IF Len(out.functionCalls) = 0
                   THEN <<[type |-> "content", content |-> out.text],
                          [type |-> "complete"]>>
                   ELSE AloneFrom(r, out.functionCalls, 1))

(* C16: with two requests in progress at once, the frames of each response
   are those a handler running alone writes for the answers that this
   request got, in the same order; what is submitted for a request comes
   from its own body, and the tool calls made for it from its own first
   model response. *)
C16_NoSharedState ==
    \A r \in reqs :
        /\ Frames(r) = AloneFrames(r)
        /\ \A p \in Positions(r, "modelCall", 0) :
              log[r][p].data.message = body[r].message
        /\ \A p \in 1..Len(log[r]) :
              log[r][p].ev = "toolCall" =>
                  \E pm \in Positions(r, "modelRet", 0) :
                      /\ log[r][p].call \in 1..Len(log[r][pm].data.functionCalls)
                      /\ log[r][p].data = log[r][pm].data.functionCalls[log[r][p].call]

C16_Witness ==
    /\ pc["r1"] = "awaitFollowUp"
    /\ pc["r2"] = "awaitTool"
    /\ queue["r1"] # queue["r2"]
    /\ Len(Frames("r1")) = 3
    /\ Len(Frames("r2")) = 2

(* C17: two requests with the same body that were given the same answers
   and stand at the same point have written the same frames, whatever the
   order in which the two were handled. *)
C17_Deterministic ==
    \A ra, rb \in reqs :
        (body[ra] = body[rb] /\ pc[ra] = pc[rb] /\ Responses(ra) = Responses(rb))
            => Frames(ra) = Frames(rb)

C17_Witness ==
    /\ pc["r1"] = "done"
    /\ pc["r2"] = "done"
    /\ body["r1"] = body["r2"]
    /\ Responses("r1") = Responses("r2")
    /\ Len(Responses("r1")) = 3
    /\ Frames("r1") = Frames("r2")

-----------------------------------------------------------------------------
(* Specification of the collaborator API over its users collection *)

Secret == "1"

Emails == {"bob@x.com", "Bob@X.com", "amy@x.com"}

Cities == {"kolkata", "Kolkata", "paris"}

UserRecords == {[email |-> e, location |-> "kolkata"] : e \in Emails}

(* req.query: each parameter is present with a value, or absent *)
Queries ==
    UNION {[d -> {Secret, "2"} \cup Emails \cup Cities] :
              d \in SUBSET {"token", "email", "city"}}

(* the queries the requests are drawn from *)
DeleteQueries ==
    {q \in Queries : /\ DOMAIN q \subseteq {"token", "email"}
                     /\ "token" \in DOMAIN q => q.token \in {Secret, "2"}
                     /\ "email" \in DOMAIN q => q.email \in Emails}

CityQueries ==
    {q \in Queries : /\ DOMAIN q \subseteq {"city"}
                     /\ "city" \in DOMAIN q => q.city \in Cities}

(* the request is served without touching the collection *)
Reply(path, q, res) ==
    /\ apiReq' = [path |-> path, query |-> q]
    /\ apiRes' = res
    /\ usersBefore' = users
    /\ users' = users

(* calling toLowerCase on an absent parameter throws; no reply is sent *)
Thrown == [thrown |-> "TypeError"]

getWeatherDetails(q) ==
    /\ Reply("/getWeatherDetails", q,
             IF "city" \notin DOMAIN q THEN Thrown
             ELSE IF ToLowerCase(q.city) = "kolkata" THEN [temp |-> "37c"]
             ELSE [temp |-> "50c"])
    /\ UNCHANGED <<backend, reqs, pc, sender, body, queue, idx, log,
                   clientVars, readerVars, parseVars>>

getUserByCity(q) ==
    /\ Reply("/getUserByCity", q,
             IF "city" \notin DOMAIN q THEN Thrown
             ELSE [found |-> SelectSeq(users,
                       LAMBDA u : u.location = ToLowerCase(q.city))])
    /\ UNCHANGED <<backend, reqs, pc, sender, body, queue, idx, log,
                   clientVars, readerVars, parseVars>>

(* mutant: any token is accepted *)
AuthorizedAnyToken(q) == "token" \in DOMAIN q

Authorized(q) == "token" \in DOMAIN q /\ q.token = Secret

RemoveAt(seq, i) == [k \in 1..(Len(seq) - 1) |-> IF k < i THEN seq[k] ELSE seq[k + 1]]

(* collection.deleteOne({email: e}): the first record with that email goes *)
DeleteOne(coll, e) ==
    LET hits == {i \in 1..Len(coll) : coll[i].email = e}
    IN  IF hits = {} THEN coll
        ELSE RemoveAt(coll, CHOOSE i \in hits : \A j \in hits : i <= j)

deleteUser(q) ==
    /\ apiReq' = [path |-> "/deleteUser", query |-> q]
    /\ usersBefore' = users
    /\ IF Authorized(q)
       THEN IF "email" \notin DOMAIN q
            THEN /\ users' = users
                 /\ apiRes' = Thrown
            ELSE /\ users' = DeleteOne(users, ToLowerCase(q.email))
                 /\ apiRes' = [acknowledged |-> TRUE,
                               deletedCount |-> Len(users) - Len(users')]
       ELSE /\ users' = users
            /\ apiRes' = [message |-> "error"]
    /\ UNCHANGED <<backend, reqs, pc, sender, body, queue, idx, log,
                   clientVars, readerVars, parseVars>>

ApiInit ==
    /\ backend \in {"gemini", "ollama"}
    /\ reqs = Requests
    /\ pc = [r \in Requests |-> "idle"]
    /\ sender = [r \in Requests |-> "none"]
    /\ body = [r \in Requests |-> NoBody]
    /\ queue = [r \in Requests |-> <<>>]
    /\ idx = [r \in Requests |-> 0]
    /\ log = [r \in Requests |-> <<>>]
    /\ messages = <<Greeting>>
    /\ inputValue = <<>>
    /\ isLoading = FALSE
    /\ currentStreamingMessage = <<>>
    /\ functionCalls = <<>>
    /\ ReaderIdle
    /\ users \in SeqsUpTo(UserRecords, MaxUsers)
    /\ usersBefore = users
    /\ apiReq = [path |-> "none", query |-> EmptyArgs]
    /\ apiRes = [none |-> ""]
    /\ ParseIdle

ApiNext ==
    \/ \E q \in CityQueries : getWeatherDetails(q)
    \/ \E q \in CityQueries : getUserByCity(q)
    \/ \E q \in DeleteQueries : deleteUser(q)

ApiSpec == ApiInit /\ [][ApiNext]_vars

(* C18: after a delete request whose token is not the secret the collection
   is as before and the reply is the error result; after one with the
   secret, the collection is as before or lacks exactly one record of
   before, whose email is the supplied email in lower case. *)
C18_DeleteNeedsToken ==
    apiReq.path = "/deleteUser" =>
        IF "token" \in DOMAIN apiReq.query /\ apiReq.query.token = Secret
        THEN \/ users = usersBefore
             \/ /\ "email" \in DOMAIN apiReq.query
                /\ \E i \in 1..Len(usersBefore) :
                      /\ users = RemoveAt(usersBefore, i)
                      /\ usersBefore[i].email = ToLowerCase(apiReq.query.email)
        ELSE /\ users = usersBefore
             /\ apiRes = [message |-> "error"]

C18_Witness ==
    /\ apiReq.path = "/deleteUser"
    /\ apiReq.query = [token |-> Secret, email |-> "Bob@X.com"]
    /\ usersBefore = <<[email |-> "bob@x.com", location |-> "kolkata"],
                       [email |-> "bob@x.com", location |-> "kolkata"]>>
    /\ Len(users) = 1
    /\ apiRes.deletedCount = 1

C18_WitnessRefused ==
    /\ apiReq.path = "/deleteUser"
    /\ apiReq.query = [token |-> "2", email |-> "bob@x.com"]
    /\ \E i \in 1..Len(users) : users[i].email = "bob@x.com"
    /\ apiRes = [message |-> "error"]

-----------------------------------------------------------------------------
(* Specification of the client reading the response to its request: the
   rest of sendMessage, one line of the stream per step, next to the
   handler that writes the stream *)

FetchErrors == {<<"Failed to fetch">>}

ReadErrors == {<<"network error">>}

(* the bubble of the outer catch *)
ErrorBubble(message) ==
    [type |-> "assistant",
     content |-> <<"Sorry, I encountered an error: ">> \o message \o <<".">>,
     isError |-> TRUE]

(* the bubble of a complete frame; functionCalls is undefined for no calls *)
AnswerBubble(content, calls) ==
    IF Len(calls) > 0
    THEN [type |-> "assistant", content |-> content, functionCalls |-> calls]
    ELSE [type |-> "assistant", content |-> content]

(* the findIndex test: same function and same JSON.stringify(args), which
   is undefined for a frame without args *)
SameCall(call, data) ==
    /\ call.function = data.function
    /\ ("args" \in DOMAIN call) = ("args" \in DOMAIN data)
    /\ ("args" \in DOMAIN call /\ "args" \in DOMAIN data) => call.args = data.args

Upsert(calls, data) ==
    LET hits == {i \in 1..Len(calls) : SameCall(calls[i], data)}
    IN  IF hits = {} THEN Append(calls, data)
        ELSE [calls EXCEPT ![CHOOSE i \in hits : \A j \in hits : i <= j] = data]

(* mutant: the finally block leaves isLoading as it is *)
FinallyStillLoading ==
    /\ isLoading' = isLoading
    /\ currentStreamingMessage' = <<>>
    /\ functionCalls' = <<>>
    /\ stream' = "none"
    /\ received' = 0
    /\ assistantContent' = <<>>
    /\ tempFunctionCalls' = <<>>

(* the finally block *)
Finally ==
    /\ isLoading' = FALSE
    /\ currentStreamingMessage' = <<>>
    /\ functionCalls' = <<>>
    /\ stream' = "none"
    /\ received' = 0
    /\ assistantContent' = <<>>
    /\ tempFunctionCalls' = <<>>

(* fetch rejects: the request never reaches the handler *)
FetchFails(r) ==
    /\ stream = r
    /\ pc[r] = "start"
    /\ \E e \in FetchErrors : messages' = Append(messages, ErrorBubble(e))
    /\ Finally
    /\ pc' = [pc EXCEPT ![r] = "lost"]
    /\ UNCHANGED <<backend, reqs, sender, body, queue, idx, log, inputValue, apiVars, parseVars>>

(* one line of the stream goes through the switch; what the error case
   throws is caught by the catch around the line, which only warns *)
ReadFrame(r) ==
    /\ stream = r
    /\ received < Len(Frames(r))
    /\ received' = received + 1
    /\ LET data == Frames(r)[received + 1]
       IN  IF data.type = "thinking"
           THEN /\ currentStreamingMessage' = <<"(thinking) ">> \o data.content
                /\ UNCHANGED <<messages, functionCalls, assistantContent,
                               tempFunctionCalls>>
           ELSE IF data.type = "function_call"
           THEN /\ tempFunctionCalls' = Upsert(tempFunctionCalls, data)
                /\ functionCalls' = tempFunctionCalls'
                /\ UNCHANGED <<messages, currentStreamingMessage, assistantContent>>
           ELSE IF data.type = "content"
           THEN /\ assistantContent' = assistantContent \o data.content
                /\ currentStreamingMessage' = assistantContent'
                /\ UNCHANGED <<messages, functionCalls, tempFunctionCalls>>
           ELSE IF data.type = "complete"
           THEN /\ messages' = Append(messages,
                       AnswerBubble(assistantContent, tempFunctionCalls))
                /\ currentStreamingMessage' = <<>>
                /\ functionCalls' = <<>>
                /\ UNCHANGED <<assistantContent, tempFunctionCalls>>
           ELSE UNCHANGED <<messages, currentStreamingMessage, functionCalls,
                            assistantContent, tempFunctionCalls>>
    /\ UNCHANGED <<backend, reqs, pc, sender, body, queue, idx, log,
                   inputValue, isLoading, stream, apiVars, parseVars>>

(* reader.read() rejects, the connection having broken while the response
   was open (the handler goes on, it has no way to notice): the outer
   catch, then the finally block *)
ReadFails(r) ==
    /\ stream = r
    /\ Len(log[r]) > 0
    /\ Count(r, "end") = 0
    /\ \E e \in ReadErrors : messages' = Append(messages, ErrorBubble(e))
    /\ Finally
    /\ UNCHANGED <<backend, reqs, pc, sender, body, queue, idx, log, inputValue,
                   apiVars, parseVars>>

(* the reader reports done: the loop is left and the finally block runs *)
ReadDone(r) ==
    /\ stream = r
    /\ received = Len(Frames(r))
    /\ Count(r, "end") > 0
    /\ Finally
    /\ UNCHANGED <<backend, reqs, pc, sender, body, queue, idx, log,
                   messages, inputValue, apiVars, parseVars>>

ClientInit ==
    /\ backend \in {"gemini", "ollama"}
    /\ reqs = Requests
    /\ pc = [r \in Requests |-> "idle"]
    /\ sender = [r \in Requests |-> "none"]
    /\ body = [r \in Requests |-> NoBody]
    /\ queue = [r \in Requests |-> <<>>]
    /\ idx = [r \in Requests |-> 0]
    /\ log = [r \in Requests |-> <<>>]
    /\ messages = <<Greeting>>
    /\ inputValue = <<>>
    /\ isLoading = FALSE
    /\ currentStreamingMessage = <<>>
    /\ functionCalls = <<>>
    /\ ReaderIdle
    /\ ApiIdle
    /\ ParseIdle

ClientNext ==
    \/ \E v \in InputTexts : setInputValue(v)
    \/ \E r \in reqs : sendMessage(r)
    \/ \E r \in reqs : FetchFails(r)
    \/ \E r \in reqs : ChatStart(r)
    \/ (\E r \in reqs : ModelReturn(r)) /\ ConcEnv'
    \/ \E r \in reqs : ToolReturn(r)
    \/ \E r \in reqs : FollowUpReturn(r)
    \/ \E r \in reqs : ReadFrame(r)
    \/ \E r \in reqs : ReadFails(r)
    \/ \E r \in reqs : ReadDone(r)

ClientSpec == ClientInit /\ [][ClientNext]_vars

(* the client has left sendMessage for request r after the stream ended *)
ClientFinished(r) ==
    /\ sender[r] = "client"
    /\ pc[r] = "done"
    /\ stream = "none"
    /\ ~isLoading

IsErrorBubble(m) == "isError" \in DOMAIN m /\ m.isError

(* text occurs in content, token for token *)
Contains(content, text) ==
    \E k \in 0..(Len(content) - Len(text)) :
        \A j \in 1..Len(text) : content[k + j] = text[j]

(* C19: when the client has finished with a response that ended without a
   complete frame, the conversation holds an error message. *)
C19_ClosedWithoutComplete ==
    \A r \in reqs :
        (ClientFinished(r) /\ ~\E k \in 1..Len(Frames(r)) : Frames(r)[k].type = "complete")
            => \E k \in 1..Len(messages) : IsErrorBubble(messages[k])

(* C20: when the client has finished with a response in which the server
   wrote an error frame with message m, the conversation holds an assistant
   message flagged as an error whose content contains m. *)
C20_ErrorFrameShown ==
    \A r \in reqs :
        ClientFinished(r) =>
            \A k \in 1..Len(Frames(r)) :
                Frames(r)[k].type = "error" =>
                    \E n \in 1..Len(messages) :
                        /\ IsErrorBubble(messages[n])
                        /\ messages[n].type = "assistant"
                        /\ Contains(messages[n].content, Frames(r)[k].message)

-----------------------------------------------------------------------------
(* Specification of a request whose awaited calls all settle: a handler that
   can take its next step does take it *)

Responsive ==
    \A r \in Requests :
        /\ WF_vars(ChatStart(r))
        /\ WF_vars(ModelReturn(r))
        /\ WF_vars(ToolReturn(r))
        /\ WF_vars(FollowUpReturn(r))

LiveSpec == Init /\ [][Next]_vars /\ Responsive

(* C21: when every awaited model or collaborator call settles, a request
   that has arrived is followed by the end of its response, and a response
   is never ended more than once. *)
C21_Terminates ==
    \A r \in Requests :
        /\ [](Count(r, "end") <= 1)
        /\ (pc[r] = "start") ~> (Count(r, "end") = 1 /\ Last(log[r]).ev = "end")

C21_Witness ==
    \E r \in reqs :
        /\ Count(r, "end") = 1
        /\ Len(queue[r]) = MaxCalls
        /\ \E i, j \in 1..Len(queue[r]) :
              /\ \E p \in Positions(r, "toolRet", i) : log[r][p].data.ok
              /\ \E p \in Positions(r, "toolRet", j) : ~log[r][p].data.ok

-----------------------------------------------------------------------------
(* Specification of the two variants serving one after the other: a request
   is handled by the variant that runs when it arrives, and the other
   variant is started in its place while no request is in progress *)

EquivBody == [message |-> <<"weather in Kolkata?">>, conversation_history |-> <<>>]

Quiet == \A r \in reqs : pc[r] \in {"idle", "done"}

EquivPost(r) ==
    /\ Quiet
    /\ Post(r, EquivBody, "caller")
    /\ UNCHANGED <<clientVars, readerVars>>

Deploy ==
    /\ Quiet
    /\ backend' = IF backend = "gemini" THEN "ollama" ELSE "gemini"
    /\ UNCHANGED <<reqs, pc, sender, body, queue, idx, log,
                   clientVars, readerVars, apiVars, parseVars>>

EquivNext ==
    \/ Deploy
    \/ \E r \in reqs : EquivPost(r)
    \/ \E r \in reqs : ChatStart(r)
    \/ (\E r \in reqs : ModelReturn(r)) /\ ConcEnv'
    \/ \E r \in reqs : ToolReturn(r)
    \/ \E r \in reqs : FollowUpReturn(r)

EquivSpec == ConcInit /\ [][EquivNext]_vars

(* the variant that handled request r, read off its first adapter call *)
HandledBy(r) ==
    IF Len(log[r]) < 2 THEN "none"
    ELSE IF log[r][2].data.api = "gemini.chat" THEN "gemini" ELSE "ollama"

(* the two requests got the same adapter output in the first round (the
   text counts when no tool is asked for, which is when the handler reads
   it), the same tool outcomes and the same follow-up texts or failures *)
SameAnswers(ra, rb) ==
    LET a == Responses(ra)
        b == Responses(rb)
    IN  /\ Len(a) = Len(b)
        /\ Len(a) >= 1
        /\ a[1].ok = b[1].ok
        /\ a[1].functionCalls = b[1].functionCalls
        /\ a[1].error = b[1].error
        /\ Len(a[1].functionCalls) = 0 => a[1].text = b[1].text
        /\ \A k \in 2..Len(a) : a[k] = b[k]

(* C22: a request handled by the Gemini variant and one handled by the
   Ollama variant that got the same answers and stand at the same point
   have written the same frames. *)
C22_Interchangeable ==
    \A ra, rb \in reqs :
        (HandledBy(ra) = "gemini" /\ HandledBy(rb) = "ollama"
            /\ pc[ra] = pc[rb] /\ SameAnswers(ra, rb))
            => Frames(ra) = Frames(rb)

C22_Witness ==
    \E ra, rb \in reqs :
        /\ HandledBy(ra) = "gemini"
        /\ HandledBy(rb) = "ollama"
        /\ pc[ra] = "done"
        /\ pc[rb] = "done"
        /\ SameAnswers(ra, rb)
        /\ queue[ra] = <<WeatherCall>>
        /\ Len(Responses(ra)) = 3
        /\ Frames(ra) = Frames(rb)
        /\ Len(Frames(ra)) = 5

-----------------------------------------------------------------------------
(* Specification of parseToolCalls over lexed text.  A text is a sequence
   of lexical tokens: the literal TOOL_CALL:, a blank, a line break, a word
   (\w+), the two parentheses, pieces of an argument fragment, plain text. *)

TC == "TOOL_CALL:"
SP == " "
NL == "\n"
LP == "("
RP == ")"

Words == {"getWeatherData", "sendEmail", "deleteUserlData"}

ParisArgs == "\"city\": \"Paris\""
KolkataArgs == "\"city\": \"Kolkata\""
DeleteArgs == "\"email\": \"a@x.io\", \"token\": \"1\""
BadArgs == "city: {Paris"
OpenString == "\"city\": \"Paris (France"

(* the lexical tokens of a whole-match token of the adapter's texts *)
Lex(tok) ==
    IF tok = WeatherMarker THEN <<TC, SP, "getWeatherData", LP, KolkataArgs, RP>>
    ELSE IF tok = DeleteMarker THEN <<TC, SP, "deleteUserlData", LP, DeleteArgs, RP>>
    ELSE IF tok = UnknownMarker THEN <<TC, SP, "sendEmail", LP, RP>>
    ELSE IF tok = MalformedMarker THEN <<TC, SP, "getWeatherData", LP, BadArgs, RP>>
    ELSE <<tok>>

RECURSIVE LexAll(_)
LexAll(text) == IF text = <<>> THEN <<>> ELSE Lex(Head(text)) \o LexAll(Tail(text))

(* the pieces the texts given to parseToolCalls are made of *)
Segments ==
    {Lex(tok) : tok \in OllamaTokens}
    \cup {<<TC, SP, "getWeatherData", LP, ParisArgs, RP>>,
          <<TC, NL, "getWeatherData", SP, LP, SP, ParisArgs, SP, RP>>,
          <<TC, SP, "getWeatherData", LP, ParisArgs>>,
          <<TC, SP, "getWeatherData", LP, ParisArgs, NL, RP>>,
          <<TC, SP, "getWeatherData", LP, OpenString, RP, "\"", RP>>,
          <<TC, SP, LP, ParisArgs, RP>>,
          <<RP>>}

RECURSIVE TextsOf(_)
TextsOf(n) ==
    IF n = 0 THEN {<<>>}
    ELSE LET shorter == TextsOf(n - 1)
         IN  shorter \cup {t \o g : t \in shorter, g \in Segments}

(* JSON.parse(`{${argsString}}`): blanks between the pieces do not matter *)
JsonParse(argsString) ==
    LET f == SelectSeq(argsString, LAMBDA t : t # SP)
    IN  IF f = <<>> THEN [ok |-> TRUE, args |-> EmptyArgs]
        ELSE IF f = <<ParisArgs>> THEN [ok |-> TRUE, args |-> [city |-> "Paris"]]
        ELSE IF f = <<KolkataArgs>> THEN [ok |-> TRUE, args |-> [city |-> "Kolkata"]]
        ELSE IF f = <<DeleteArgs>>
             THEN [ok |-> TRUE, args |-> [email |-> "a@x.io", token |-> "1"]]
        ELSE [ok |-> FALSE, args |-> EmptyArgs]

(* \s* *)
RECURSIVE SkipSpace(_, _)
SkipSpace(text, i) ==
    IF i <= Len(text) /\ text[i] \in {SP, NL} THEN SkipSpace(text, i + 1) ELSE i

(* (.*?)\) : the first closing parenthesis, unless a line break comes first *)
RECURSIVE FirstClose(_, _)
FirstClose(text, i) ==
    IF i > Len(text) \/ text[i] = NL THEN 0
    ELSE IF text[i] = RP THEN i
    ELSE FirstClose(text, i + 1)

NoMatch == [found |-> FALSE, functionName |-> "", argsString |-> <<>>, lastIndex |-> 0]

(* the pattern matched at position s *)
MatchAt(text, s) ==
    IF text[s] # TC THEN NoMatch
    ELSE LET n == SkipSpace(text, s + 1)
         IN  IF n > Len(text) \/ text[n] \notin Words THEN NoMatch
             ELSE LET o == SkipSpace(text, n + 1)
                  IN  IF o > Len(text) \/ text[o] # LP THEN NoMatch
                      ELSE LET c == FirstClose(text, o + 1)
                           IN  IF c = 0 THEN NoMatch
                               ELSE [found |-> TRUE, functionName |-> text[n],
                                     argsString |-> SubSeq(text, o + 1, c - 1),
                                     lastIndex |-> c + 1]

(* toolCallPattern.exec(content) with the g flag: the leftmost match from
   lastIndex on *)
RECURSIVE Exec(_, _)
Exec(text, lastIndex) ==
    IF lastIndex > Len(text) THEN NoMatch
    ELSE LET m == MatchAt(text, lastIndex)
         IN  IF m.found THEN m ELSE Exec(text, lastIndex + 1)

(* mutant: JSON.parse is called outside a try block *)
RECURSIVE ParseLoopNoCatch(_, _, _)
ParseLoopNoCatch(text, lastIndex, toolCalls) ==
    LET m == Exec(text, lastIndex)
    IN  IF ~m.found THEN [returned |-> TRUE, threw |-> FALSE, toolCalls |-> toolCalls]
        ELSE IF JsonParse(m.argsString).ok
        THEN ParseLoopNoCatch(text, m.lastIndex,
                 Append(toolCalls, [name |-> m.functionName,
                                    args |-> JsonParse(m.argsString).args]))
        ELSE [returned |-> FALSE, threw |-> TRUE, toolCalls |-> <<>>]

(* the while loop of parseToolCalls *)
RECURSIVE ParseLoop(_, _, _)
ParseLoop(text, lastIndex, toolCalls) ==
    LET m == Exec(text, lastIndex)
    IN  IF ~m.found THEN [returned |-> TRUE, threw |-> FALSE, toolCalls |-> toolCalls]
        ELSE IF JsonParse(m.argsString).ok
        THEN ParseLoop(text, m.lastIndex,
                 Append(toolCalls, [name |-> m.functionName,
                                    args |-> JsonParse(m.argsString).args]))
        ELSE ParseLoop(text, m.lastIndex, toolCalls)

ParseCall ==
    /\ ~parsed.returned
    /\ ~parsed.threw
    /\ parsed' = ParseLoop(modelText, 1, <<>>)
    /\ UNCHANGED <<backend, reqs, pc, sender, body, queue, idx, log,
                   clientVars, readerVars, apiVars, modelText>>

ParseInit ==
    /\ backend = "ollama"
    /\ reqs = Requests
    /\ pc = [r \in Requests |-> "idle"]
    /\ sender = [r \in Requests |-> "none"]
    /\ body = [r \in Requests |-> NoBody]
    /\ queue = [r \in Requests |-> <<>>]
    /\ idx = [r \in Requests |-> 0]
    /\ log = [r \in Requests |-> <<>>]
    /\ messages = <<Greeting>>
    /\ inputValue = <<>>
    /\ isLoading = FALSE
    /\ currentStreamingMessage = <<>>
    /\ functionCalls = <<>>
    /\ ReaderIdle
    /\ ApiIdle
    /\ modelText \in TextsOf(MaxSegments)
    /\ parsed = [returned |-> FALSE, threw |-> FALSE, toolCalls |-> <<>>]

ParseNext == ParseCall

ParseSpec == ParseInit /\ [][ParseNext]_vars

(* tokens s..e of the text are an occurrence of the marker pattern whose
   opening parenthesis is at o *)
IsOccurrence(text, s, o, e) ==
    /\ s < o /\ o < e /\ e <= Len(text)
    /\ text[s] = TC
    /\ text[o] = LP
    /\ text[e] = RP
    /\ \E n \in (s + 1)..(o - 1) :
          /\ text[n] \in Words
          /\ \A k \in ((s + 1)..(o - 1)) \ {n} : text[k] \in {SP, NL}
    /\ \A k \in (o + 1)..(e - 1) : text[k] \notin {RP, NL}

(* where the occurrence starting at s has its opening and its closing
   parenthesis; the empty set when no occurrence starts at s *)
OccurrenceAt(text, s) ==
    IF text[s] # TC THEN {}
    ELSE {c \in {<<o, e>> : o \in {k \in (s + 1)..Len(text) : text[k] = LP},
                            e \in {k \in (s + 1)..Len(text) : text[k] = RP}} :
             IsOccurrence(text, s, c[1], c[2])}

(* the occurrences from position from on, leftmost first, none overlapping
   an earlier one, each as <<start, opening, closing>> *)
RECURSIVE Occurrences(_, _)
Occurrences(text, from) ==
    LET starts == {s \in from..Len(text) : OccurrenceAt(text, s) # {}}
    IN  IF starts = {} THEN <<>>
        ELSE LET s == CHOOSE x \in starts : \A y \in starts : x <= y
                 c == CHOOSE x \in OccurrenceAt(text, s) : TRUE
             IN  <<<<s, c[1], c[2]>>>> \o Occurrences(text, c[2] + 1)

RECURSIVE CallsOf(_, _)
CallsOf(text, occ) ==
    IF occ = <<>> THEN <<>>
    ELSE LET c == Head(occ)
             j == JsonParse(SubSeq(text, c[2] + 1, c[3] - 1))
             n == CHOOSE k \in (c[1] + 1)..(c[2] - 1) : text[k] \in Words
         IN  (IF j.ok THEN <<[name |-> text[n], args |-> j.args]>> ELSE <<>>)
             \o CallsOf(text, Tail(occ))

(* C23: parseToolCalls returns and does not throw; what it returns is, in
   text order, one {name, args} for each non-overlapping occurrence of the
   marker pattern whose argument fragment parses once wrapped in braces,
   an occurrence with a malformed fragment giving nothing; the text
   TOOL_CALL: getWeatherData("city": "Paris") gives exactly one call, of
   getWeatherData with city Paris; a text of whole markers gives what the
   adapter's outcomes take it to give. *)
C23_ParseToolCalls ==
    (parsed.returned \/ parsed.threw) =>
        /\ parsed.returned /\ ~parsed.threw
        /\ parsed.toolCalls = CallsOf(modelText, Occurrences(modelText, 1))
        /\ modelText = <<TC, SP, "getWeatherData", LP, ParisArgs, RP>> =>
              parsed.toolCalls = <<[name |-> "getWeatherData", args |-> [city |-> "Paris"]]>>
        /\ \A t \in SeqsUpTo(OllamaTokens, MaxMarkers) :
              LexAll(t) = modelText => parseToolCalls(t) = parsed.toolCalls

C23_Witness ==
    /\ parsed.returned
    /\ modelText = <<TC, SP, "getWeatherData", LP, BadArgs, RP>>
                     \o <<TC, SP, "getWeatherData", LP, ParisArgs, RP>>
                     \o <<TC, SP, "sendEmail", LP, RP>>
    /\ parsed.toolCalls = <<[name |-> "getWeatherData", args |-> [city |-> "Paris"]],
                            [name |-> "sendEmail", args |-> EmptyArgs]>>

-----------------------------------------------------------------------------
(* the outcome frames written for call i: function_call frames with status
   completed or error *)
OutcomeFrames(r, i) ==
    SelectSeq(FramesOf(r, i),
              LAMBDA f : f.type = "function_call" /\ f.status \in {"completed", "error"})

(* C24: a dispatched tool call never has more than one outcome frame, its
   outcome frame comes after its executing frame, and once the handler has
   gone past the call (the next call is dispatched or the response has
   ended) it has exactly one. *)
C24_OneOutcomeFrame ==
    \A r \in reqs : \A i \in 1..Len(queue[r]) :
        /\ Len(OutcomeFrames(r, i)) <= 1
        /\ Len(OutcomeFrames(r, i)) >= 1 =>
              (FramesOf(r, i)[1].type = "function_call"
                  /\ FramesOf(r, i)[1].status = "executing")
        /\ (Positions(r, "toolCall", i) # {} /\ (idx[r] > i \/ pc[r] = "done"))
              => Len(OutcomeFrames(r, i)) = 1

-----------------------------------------------------------------------------
(* the client has gone through every line of the ended response to r *)
AllFramesRead(r) ==
    /\ stream = r
    /\ Count(r, "end") > 0
    /\ received = Len(Frames(r))

(* C25: once the client has processed all frames of a response, its list of
   function calls has one entry per tool call the server dispatched, in
   dispatch order, each for that call's function and with status completed
   or error, none left executing. *)
C25_FunctionCallList ==
    \A r \in reqs :
        AllFramesRead(r) =>
            /\ Len(tempFunctionCalls) = Count(r, "toolCall")
            /\ \A k \in 1..Len(tempFunctionCalls) :
                  /\ tempFunctionCalls[k].status \in {"completed", "error"}
                  /\ k <= Len(queue[r]) => tempFunctionCalls[k].function = queue[r][k].name

-----------------------------------------------------------------------------
(* Specification of the client through several exchanges, with a server
   whose awaited calls all settle and a client that reads what has arrived;
   sending, typing and the breaking of a connection are left to chance *)

(* the model asks for the weather tool only, and says nothing else when it
   asks for a tool *)
ChatEnv ==
    /\ ConcEnv
    /\ \A r \in reqs :
          /\ \A i \in 1..Len(queue[r]) : queue[r][i] = WeatherCall
          /\ \A p \in Positions(r, "modelRet", 0) :
                Len(log[r][p].data.functionCalls) > 0 => log[r][p].data.text = <<>>

ChatNext ==
    \/ \E v \in InputTexts : setInputValue(v)
    \/ \E r \in reqs : sendMessage(r)
    \/ \E r \in reqs : FetchFails(r)
    \/ \E r \in reqs : ChatStart(r)
    \/ (\E r \in reqs : ModelReturn(r)) /\ ChatEnv'
    \/ \E r \in reqs : ToolReturn(r)
    \/ \E r \in reqs : FollowUpReturn(r)
    \/ \E r \in reqs : ReadFrame(r)
    \/ \E r \in reqs : ReadFails(r)
    \/ \E r \in reqs : ReadDone(r)

ChatFairness ==
    /\ \A r \in ConcRequests :
          /\ WF_vars(ChatStart(r))
          /\ WF_vars(ToolReturn(r))
          /\ WF_vars(FollowUpReturn(r))
          /\ WF_vars(ReadFrame(r))
          /\ WF_vars(ReadDone(r))
    /\ WF_vars((\E r \in reqs : ModelReturn(r)) /\ ChatEnv')

(* the client is served by the variant it is shipped with *)
ChatInit == ConcInit /\ backend = "gemini"

ChatSpec == ChatInit /\ [][ChatNext]_vars /\ ChatFairness

(* the requests the client has sent *)
Sent == {r \in reqs : sender[r] = "client"}

UserMessageCount == Len(SelectSeq(messages, LAMBDA m : m.type = "user"))

(* C26: a request is sent only while isLoading is false and the input is
   not blank, so the client waits for one response at most; every loading
   period ends, with the streaming text and the live function-call list
   cleared; the conversation has one user message per request sent and
   after each user message at most one assistant message. *)
C26_OneRequestInFlight ==
    /\ [][\A r \in reqs :
            (sender[r] # "client" /\ sender'[r] = "client")
                => (~isLoading /\ ~IsBlank(inputValue) /\ stream = "none")]_vars
    /\ [](isLoading <=> stream # "none")
    /\ isLoading ~> (~isLoading /\ currentStreamingMessage = <<>> /\ functionCalls = <<>>)
    /\ [](UserMessageCount = Cardinality(Sent))
    /\ [](\A k \in 2..Len(messages) :
            messages[k].type = "assistant" => messages[k - 1].type = "user")

C26_Witness ==
    /\ Cardinality(Sent) = 2
    /\ ~isLoading
    /\ Len(messages) = 5
    /\ IsErrorBubble(messages[3])
    /\ "functionCalls" \in DOMAIN messages[5]
    /\ currentStreamingMessage = <<>>
    /\ functionCalls = <<>>


====
